---- MODULE Spec2Model ----
(***************************************************************************)
(* Model of the open-space generator (main.py, utils.py).                  *)
(*                                                                         *)
(* Geometry is abstracted to the quantities the program reads from the     *)
(* geometry kernel: a polygon is a record of its area, its overlap length  *)
(* with each road, the number of overlap segments it has with the lot      *)
(* boundary and whether it is a scaled copy.  Areas and lengths are exact  *)
(* integers (square metres / metres); lot areas are multiples of 10 so     *)
(* that lot.area * 0.1 is an integer, and 0.25 and 0.1 are kept as the     *)
(* fractions 1/4 and 1/10.                                                 *)
(* The zoning and use categories are Korean strings in the source; they    *)
(* are written here by their English names.                                *)
(***************************************************************************)
EXTENDS Integers, Sequences, FiniteSets, TLC

(* ------------------------------ bounds -------------------------------- *)
MaxRegions == 2
MaxRanked == 3
MaxRoads == 2
MaxBuildingRegions == 2
MaxFloors == 2

(* ------------------------- program constants -------------------------- *)
MIN_AREA == 90
AREA_RATIO_DEN == 10
ROAD_ADJUST_RATIO_DEN == 4
TOTAL_AREA_LIMIT == 5000

\* main.py 58-63: general residential, quasi-residential, commercial,
\* quasi-industrial districts.
DISTRICT_USES ==
    {"general_residential", "semi_residential", "commercial", "semi_industrial"}

\* main.py 66-74: cultural, assembly, religious, sales, transportation,
\* business, lodging facilities.
BUILDING_USES ==
    {"cultural", "assembly", "religious", "sales", "transportation",
     "business", "lodging"}

(* ------------------------------ helpers ------------------------------- *)
Max(a, b) == IF a >= b THEN a ELSE b

RECURSIVE SumArea(_)
\* sum(geo.AreaMassProperties.Compute(region).Area for region in regions)
SumArea(regions) ==
    IF regions = <<>> THEN 0
    ELSE Head(regions).area + SumArea(Tail(regions))

(* ----------------------------- site model ----------------------------- *)
\* class Lot: the overlap of lot.region with each road is kept on the road.
Lot(area, district_use) == [area |-> area, district_use |-> district_use]

\* class Road: lot_overlap is get_overlap_length(lot.region, road.curve).
Road(lot_overlap) == [lot_overlap |-> lot_overlap]

\* class Building
Building(regions, floor_count, use) ==
    [regions     |-> regions,
     floor_area  |-> SumArea(regions),
     floor_count |-> floor_count,
     total_area  |-> SumArea(regions) * floor_count,
     use         |-> use]

\* A closed planar curve as the program sees it through the kernel.
Polygon(id, area, road_overlap, lot_overlap) ==
    [id |-> id, area |-> area, road_overlap |-> road_overlap,
     lot_overlap |-> lot_overlap, scaled |-> FALSE]

(* ------------------------ requirement evaluator ----------------------- *)
\* Variant of _get_target_information whose floor-area test is written
\* "<= 5000", so a building of exactly 5000 m2 is not eligible.
GetTargetInformationStrict(l, b) ==
    IF l.district_use \notin DISTRICT_USES THEN 0
    ELSE IF b.use \notin BUILDING_USES THEN 0
    ELSE IF b.total_area <= TOTAL_AREA_LIMIT THEN 0
    ELSE Max(l.area \div AREA_RATIO_DEN, MIN_AREA)

\* OpenspaceRequirement._get_target_information: the value left in self.area
GetTargetInformation(l, b) ==
    IF l.district_use \notin DISTRICT_USES THEN 0
    ELSE IF b.use \notin BUILDING_USES THEN 0
    ELSE IF b.total_area < TOTAL_AREA_LIMIT THEN 0
    ELSE Max(l.area \div AREA_RATIO_DEN, MIN_AREA)

\* OpenspaceRequirement.__init__
OpenspaceRequirement(l, b) == [area |-> GetTargetInformation(l, b)]

(* --------------------------- geometry kernel -------------------------- *)
\* geo.Curve.PlanarClosedCurveRelationship(region, other_region), by how the
\* inward region lies against the building region: "apart", touching at a
\* "point", boundaries crossing ("overlap"), "inside" it or it "contains"
\* it.  Disjoint is the answer only for regions that are completely apart,
\* with no touching part (utils.py 98).
PlanarClosedCurveRelationship(contact) ==
    CASE contact = "apart"    -> "Disjoint"
      [] contact = "point"    -> "MutualIntersection"
      [] contact = "overlap"  -> "MutualIntersection"
      [] contact = "inside"   -> "AInsideB"
      [] contact = "contains" -> "BInsideA"

\* utils.has_region_intersection
has_region_intersection(contact) ==
    IF PlanarClosedCurveRelationship(contact) = "Disjoint" THEN FALSE ELSE TRUE

\* ghcomp.Scale(region, center, factor).geometry with factor^2 = num / den:
\* a similarity scales the area by the square of the factor.
Scale(region, num, den) ==
    [region EXCEPT !.area = (region.area * num) \div den, !.scaled = TRUE]

(* ------------------------- candidate generator ------------------------ *)
\* Variant of the building test written with all() instead of any().
IntersectsEveryBuilding(region) ==
    \A b \in 1..Len(region.contact) : has_region_intersection(region.contact[b])

\* main.py 126-129: any(has_region_intersection(region, other) ...)
IntersectsBuilding(region) ==
    \E b \in 1..Len(region.contact) : has_region_intersection(region.contact[b])

\* main.py 124-131
FilterInwardRegions(regions) ==
    SelectSeq(regions, LAMBDA r : ~IntersectsBuilding(r))

\* utils.offset_region_outward with dist = MIN_DEPTH / 2 (never zero):
\* Offset().polyline_offset(region, dist, miter).contour[0] raises
\* IndexError when the offset yields no contour.
OffsetRaises(regions) ==
    \E i \in 1..Len(regions) : regions[i].contour = <<>>

\* utils.offset_regions_outward, when no element raises
offset_regions_outward(regions) ==
    [i \in 1..Len(regions) |-> regions[i].contour[1]]

(* --------------------------- candidate filter ------------------------- *)
\* Variant of is_road_adjacent that compares with ">=".
is_road_adjacent_or_equal(candidate, rds) ==
    \E r \in 1..Len(rds) :
        candidate.road_overlap[r] * ROAD_ADJUST_RATIO_DEN >= rds[r].lot_overlap

\* is_road_adjacent: candidate_overlap_length > lot_overlap_length * 0.25
is_road_adjacent(candidate, rds) ==
    \E r \in 1..Len(rds) :
        candidate.road_overlap[r] * ROAD_ADJUST_RATIO_DEN > rds[r].lot_overlap

\* Variant of the area test with the comparison inverted.
has_min_area_inverted(candidate) == candidate.area <= MIN_AREA

\* main.py 163-167: Area >= self.requirement.MIN_AREA
has_min_area(candidate) == candidate.area >= MIN_AREA

\* OepnspaceGenerator.filter_candidate_regions
filter_candidate_regions(cands, rds) ==
    SelectSeq(SelectSeq(cands, LAMBDA c : is_road_adjacent(c, rds)),
              LAMBDA c : has_min_area(c))

(* --------------------------- candidate ranker ------------------------- *)
\* Variant of the insertion point that puts x before elements of equal
\* area, as sorting ascending and reversing the result would.
InsertPosBeforeEqual(s, x) ==
    IF \E i \in 1..Len(s) : s[i].area <= x.area
    THEN CHOOSE i \in 1..Len(s) :
            /\ s[i].area <= x.area
            /\ \A j \in 1..(i - 1) : s[j].area > x.area
    ELSE Len(s) + 1

\* Where sorted(..., reverse=True) places x among the elements before it:
\* after every element whose key is >= its own (the sort is stable).
InsertPos(s, x) ==
    IF \E i \in 1..Len(s) : s[i].area < x.area
    THEN CHOOSE i \in 1..Len(s) :
            /\ s[i].area < x.area
            /\ \A j \in 1..(i - 1) : s[j].area >= x.area
    ELSE Len(s) + 1

InsertAt(s, p, x) == SubSeq(s, 1, p - 1) \o <<x>> \o SubSeq(s, p, Len(s))

RECURSIVE SortedFrom(_, _)
SortedFrom(acc, rest) ==
    IF rest = <<>> THEN acc
    ELSE SortedFrom(InsertAt(acc, InsertPos(acc, Head(rest)), Head(rest)),
                    Tail(rest))

\* OepnspaceGenerator.sort_candidate_regions
sort_candidate_regions(cands) == SortedFrom(<<>>, cands)

(* --------------------------- candidate fitter ------------------------- *)
\* reduce_region: the first segment of get_overlap_crv(region, lot.region)
\* is indexed after the scale factor is computed; an empty result raises
\* IndexError.
ReduceRaises(region, target_area) ==
    /\ ~(region.area <= target_area)
    /\ region.lot_overlap = 0

\* Variant of reduce_region whose scale factor is target_area / area
\* without the square root, so the area is scaled by its square.
reduce_region_linear(region, target_area) ==
    IF region.area <= target_area THEN region
    ELSE Scale(region, target_area * target_area, region.area * region.area)

\* reduce_region, when it does not raise
reduce_region(region, target_area) ==
    IF region.area <= target_area THEN region
    ELSE Scale(region, target_area, region.area)

\* main.py 199: total_area + area > self.requirement.area
NeedsReduce(total, area, req) == total + area > req

\* main.py 206: total_area >= self.requirement.area
Reached(total, req) == total >= req

(* -------------------------------- state ------------------------------- *)
VARIABLES
    pc,                  \* the statement the script is at
    err,                 \* the exception that ended the run, or "none"
    lot, roads, building,
    requirement,
    inward_regions,      \* result of utils.offset_regions_inward (holes)
    candidates, filtered_candidates, sorted_candidates,
    adjusted_candidates, total_area,
    idx,                 \* position of the for loop of adjust_candidate_regions
    scale_call           \* <<target_area, area>> of the last scale factor computed

vars == <<pc, err, lot, roads, building, requirement, inward_regions,
          candidates, filtered_candidates, sorted_candidates,
          adjusted_candidates, total_area, idx, scale_call>>

site == <<lot, roads, building, requirement, inward_regions>>

(* ------------------------------- actions ------------------------------ *)
\* main.py 215: requirement = OpenspaceRequirement(lot, building)
NewRequirement ==
    /\ pc = "new_requirement"
    /\ requirement' = OpenspaceRequirement(lot, building)
    /\ pc' = "get_candidate_regions"
    /\ UNCHANGED <<err, lot, roads, building, inward_regions, candidates,
                   filtered_candidates, sorted_candidates,
                   adjusted_candidates, total_area, idx, scale_call>>

\* OepnspaceGenerator.get_candidate_regions (main.py 103, 114-137)
GetCandidateRegions ==
    /\ pc = "get_candidate_regions"
    /\ LET filtered_inward_regions == FilterInwardRegions(inward_regions)
       IN  IF OffsetRaises(filtered_inward_regions)
           THEN /\ pc' = "raised"
                /\ err' = "IndexError"
                /\ UNCHANGED candidates
           ELSE /\ pc' = "filter_candidate_regions"
                /\ candidates' = offset_regions_outward(filtered_inward_regions)
                /\ UNCHANGED err
    /\ UNCHANGED <<site, filtered_candidates, sorted_candidates,
                   adjusted_candidates, total_area, idx, scale_call>>

\* OepnspaceGenerator.filter_candidate_regions (main.py 106, 139-169)
FilterCandidateRegions ==
    /\ pc = "filter_candidate_regions"
    /\ filtered_candidates' = filter_candidate_regions(candidates, roads)
    /\ pc' = "sort_candidate_regions"
    /\ UNCHANGED <<err, site, candidates, sorted_candidates,
                   adjusted_candidates, total_area, idx, scale_call>>

\* OepnspaceGenerator.sort_candidate_regions (main.py 109, 171-178)
SortCandidateRegions ==
    /\ pc = "sort_candidate_regions"
    /\ sorted_candidates' = sort_candidate_regions(filtered_candidates)
    /\ pc' = "adjust_candidate_regions"
    /\ UNCHANGED <<err, site, candidates, filtered_candidates,
                   adjusted_candidates, total_area, idx, scale_call>>

\* adjust_candidate_regions, entry (main.py 194-195)
AdjustEnter ==
    /\ pc = "adjust_candidate_regions"
    /\ adjusted_candidates' = <<>>
    /\ total_area' = 0
    /\ idx' = 1
    /\ pc' = "adjust_loop"
    /\ UNCHANGED <<err, site, candidates, filtered_candidates,
                   sorted_candidates, scale_call>>

\* adjust_candidate_regions, one iteration of the for loop (main.py 197-207)
AdjustIter ==
    /\ pc = "adjust_loop"
    /\ idx <= Len(sorted_candidates)
    /\ LET candidate == sorted_candidates[idx]
           area      == candidate.area
           target    == requirement.area - total_area
           reduces   == NeedsReduce(total_area, area, requirement.area)
           scales    == reduces /\ ~(area <= target)
           accepted  == IF reduces THEN reduce_region(candidate, target)
                        ELSE candidate
       IN  /\ scale_call' = IF scales THEN <<target, area>> ELSE scale_call
           /\ idx' = idx + 1
           /\ IF reduces /\ ReduceRaises(candidate, target)
              THEN /\ pc' = "raised"
                   /\ err' = "IndexError"
                   /\ UNCHANGED <<adjusted_candidates, total_area>>
              ELSE /\ adjusted_candidates' = Append(adjusted_candidates, accepted)
                   /\ total_area' = total_area + accepted.area
                   /\ pc' = IF Reached(total_area + accepted.area, requirement.area)
                            THEN "done" ELSE "adjust_loop"
                   /\ UNCHANGED err
    /\ UNCHANGED <<site, candidates, filtered_candidates, sorted_candidates>>

\* adjust_candidate_regions, loop exhausted (main.py 209)
AdjustReturn ==
    /\ pc = "adjust_loop"
    /\ idx > Len(sorted_candidates)
    /\ pc' = "done"
    /\ UNCHANGED <<err, site, candidates, filtered_candidates,
                   sorted_candidates, adjusted_candidates, total_area, idx,
                   scale_call>>

(* ------------------------------- inputs ------------------------------- *)
\* Sequences of length 0..n over the set S.
SeqsUpTo(S, n) == UNION {[1..k -> S] : k \in 0..n}

\* Number the elements of a sequence of attribute records by position.
Numbered(f) == [i \in 1..Len(f) |-> [f[i] EXCEPT !.id = i]]

NumberedContour(f) ==
    [i \in 1..Len(f) |->
        [id |-> i, contact |-> f[i].contact,
         contour |-> [k \in 1..Len(f[i].contour) |->
                         [f[i].contour[k] EXCEPT !.id = i]]]]

IsDescending(s) == \A i \in 1..(Len(s) - 1) : s[i].area >= s[i + 1].area

NoRequirement == [area |-> 0]

Idle ==
    /\ err = "none"
    /\ candidates = <<>>
    /\ filtered_candidates = <<>>
    /\ sorted_candidates = <<>>
    /\ adjusted_candidates = <<>>
    /\ total_area = 0
    /\ idx = 1
    /\ scale_call = <<>>

ScriptLot == {Lot(a, "general_residential") : a \in {900, 1350, 1800}}

ScriptBuilding ==
    {Building(<<[area |-> a]>>, 5, "business") : a \in {800, 1200}}

(* --------------------------- specifications --------------------------- *)
\* The script main.py 212-220 on a site with one road and one building
\* region: lot, roads and building are constructed, the kernel's inward
\* offset and the outward contour of every inward region are given.
Init ==
    /\ pc = "new_requirement"
    /\ lot \in ScriptLot
    /\ building \in ScriptBuilding
    /\ roads = <<Road(4)>>
    /\ requirement = NoRequirement
    /\ inward_regions \in
         {NumberedContour(f) : f \in SeqsUpTo(
            [contact : [1..1 -> {"apart", "inside"}],
             contour : {<<>>} \cup
                       {<<Polygon(0, a, <<c>>, o)>> :
                            a \in {45, 90, 135}, c \in {1, 2}, o \in {0, 1}}],
            MaxRegions)}
    /\ Idle

Next ==
    \/ NewRequirement
    \/ GetCandidateRegions
    \/ FilterCandidateRegions
    \/ SortCandidateRegions
    \/ AdjustEnter
    \/ AdjustIter
    \/ AdjustReturn

Spec == Init /\ [][Next]_vars

\* OpenspaceRequirement(lot, building) over lots and buildings.
InitReq ==
    /\ pc = "new_requirement"
    /\ lot \in {Lot(a, d) : a \in {100, 500, 890, 900, 910, 2000},
                            d \in DISTRICT_USES \cup {"green"}}
    /\ building \in
         {Building(rs, n, u) :
            rs \in SeqsUpTo([area : {2499, 2500, 2501}], MaxBuildingRegions)
                   \ {<<>>},
            n \in 1..MaxFloors,
            u \in BUILDING_USES \cup {"housing"}}
    /\ roads = <<>>
    /\ requirement = NoRequirement
    /\ inward_regions = <<>>
    /\ Idle

NextReq == NewRequirement

SpecReq == InitReq /\ [][NextReq]_vars

\* get_candidate_regions over inward regions and building regions; every
\* inward region has an outward contour here (Spec covers those without).
InitGen ==
    /\ pc = "get_candidate_regions"
    /\ lot \in {Lot(900, "general_residential")}
    /\ roads = <<>>
    /\ \E nb \in 1..MaxBuildingRegions :
         /\ building = Building([b \in 1..nb |-> [area |-> 1200]], 5, "business")
         /\ inward_regions \in
              {NumberedContour(f) : f \in SeqsUpTo(
                 [contact : [1..nb -> {"apart", "point", "overlap", "inside"}],
                  contour : {<<Polygon(0, 90, <<>>, 1)>>}],
                 MaxRegions)}
    /\ requirement = OpenspaceRequirement(lot, building)
    /\ Idle

NextGen == GetCandidateRegions

SpecGen == InitGen /\ [][NextGen]_vars

\* filter_candidate_regions over candidates and roads.
InitFilter ==
    /\ pc = "filter_candidate_regions"
    /\ lot \in {Lot(900, "general_residential")}
    /\ building \in {Building(<<[area |-> 1200]>>, 5, "business")}
    /\ requirement = OpenspaceRequirement(lot, building)
    /\ inward_regions = <<>>
    /\ roads \in SeqsUpTo({Road(0), Road(4)}, MaxRoads)
    /\ err = "none"
    /\ candidates \in
         {Numbered(f) : f \in SeqsUpTo(
            {Polygon(0, a, ro, 1) :
                a \in {45, 90}, ro \in [1..Len(roads) -> {0, 1, 2}]},
            MaxRegions)}
    /\ filtered_candidates = <<>>
    /\ sorted_candidates = <<>>
    /\ adjusted_candidates = <<>>
    /\ total_area = 0
    /\ idx = 1
    /\ scale_call = <<>>

NextFilter == FilterCandidateRegions

SpecFilter == InitFilter /\ [][NextFilter]_vars

\* sort_candidate_regions over lists of candidates that passed the filter.
InitSort ==
    /\ pc = "sort_candidate_regions"
    /\ lot \in {Lot(900, "general_residential")}
    /\ building \in {Building(<<[area |-> 1200]>>, 5, "business")}
    /\ requirement = OpenspaceRequirement(lot, building)
    /\ inward_regions = <<>>
    /\ roads = <<Road(4)>>
    /\ err = "none"
    /\ candidates = <<>>
    /\ filtered_candidates \in
         {Numbered(f) : f \in SeqsUpTo(
            {Polygon(0, a, <<2>>, o) :
                a \in {90, 135, 180, 225}, o \in {0, 1}},
            MaxRanked)}
    /\ sorted_candidates = <<>>
    /\ adjusted_candidates = <<>>
    /\ total_area = 0
    /\ idx = 1
    /\ scale_call = <<>>

NextSort == SortCandidateRegions

SpecSort == InitSort /\ [][NextSort]_vars

\* adjust_candidate_regions over ranked lists and requirement areas.
InitFit ==
    /\ pc = "adjust_candidate_regions"
    /\ lot \in {Lot(900, "general_residential")}
    /\ building \in {Building(<<[area |-> 1200]>>, 5, "business")}
    /\ requirement \in [area : {0, 90, 135, 180, 225, 270, 315, 360}]
    /\ inward_regions = <<>>
    /\ roads = <<Road(4)>>
    /\ err = "none"
    /\ candidates = <<>>
    /\ filtered_candidates = <<>>
    /\ sorted_candidates \in
         {s \in {Numbered(f) : f \in SeqsUpTo(
                    {Polygon(0, a, <<2>>, o) :
                        a \in {90, 135, 180}, o \in {0, 1}},
                    MaxRanked)} : IsDescending(s)}
    /\ adjusted_candidates = <<>>
    /\ total_area = 0
    /\ idx = 1
    /\ scale_call = <<>>

NextFit ==
    \/ AdjustEnter
    \/ AdjustIter
    \/ AdjustReturn

SpecFit == InitFit /\ [][NextFit]_vars

(* ------------------------------- claims ------------------------------- *)
Ids(s) == {s[i].id : i \in 1..Len(s)}

\* The three eligibility conditions of the requirement, as the claim words them.
Eligible ==
    /\ lot.district_use \in
         {"general_residential", "semi_residential", "commercial",
          "semi_industrial"}
    /\ building.use \in
         {"cultural", "assembly", "religious", "sales", "transportation",
          "business", "lodging"}
    /\ ~(building.total_area < 5000)

\* C1: once the requirement is constructed, its area is 0 when one of the
\* three eligibility conditions is false and max(lot.area * 0.1, 90) when
\* all hold; it is never negative and at least 90 when it is not 0.
C1_RequirementArea ==
    pc = "get_candidate_regions" =>
        /\ ~Eligible => requirement.area = 0
        /\ Eligible =>
              IF lot.area >= 900 THEN 10 * requirement.area = lot.area
              ELSE requirement.area = 90
        /\ requirement.area >= 0
        /\ requirement.area # 0 => requirement.area >= 90

\* C1 witness: a building of exactly 5000 m2 on a 2000 m2 lot requires 200.
C1_Witness ==
    /\ pc = "get_candidate_regions"
    /\ building.total_area = 5000
    /\ lot.area = 2000
    /\ requirement.area = 200

\* The two predicates of the filter, as the claim words them.
PassesFilter(c) ==
    /\ c.area >= 90
    /\ \E r \in 1..Len(roads) :
          4 * c.road_overlap[r] > roads[r].lot_overlap

C6_StableSort ==
    pc = "adjust_candidate_regions" =>
        /\ Len(sorted_candidates) = Len(filtered_candidates)
        /\ Ids(sorted_candidates) = 1..Len(filtered_candidates)
        /\ \A i \in 1..Len(sorted_candidates) :
              sorted_candidates[i] = filtered_candidates[sorted_candidates[i].id]
        /\ \A i, j \in 1..Len(sorted_candidates) :
              i < j =>
                 /\ sorted_candidates[i].area >= sorted_candidates[j].area
                 /\ sorted_candidates[i].area = sorted_candidates[j].area
                       => sorted_candidates[i].id < sorted_candidates[j].id

\* C6 witness: a list whose smallest candidate comes first and whose two
\* larger candidates tie is reordered with the tie in input order.
C6_Witness ==
    /\ pc = "adjust_candidate_regions"
    /\ Len(filtered_candidates) = 3
    /\ filtered_candidates[1].area < filtered_candidates[2].area
    /\ filtered_candidates[2].area = filtered_candidates[3].area
    /\ sorted_candidates[1].id = 2
    /\ sorted_candidates[2].id = 3
    /\ sorted_candidates[3].id = 1

\* C2: when the fitter returns, the total area of its result is at most the
\* requirement, and equals it exactly when the ranked input totals at
\* least the requirement.
C2_FitTotal ==
    pc = "done" =>
        /\ SumArea(adjusted_candidates) <= requirement.area
        /\ SumArea(adjusted_candidates) = requirement.area
              <=> SumArea(sorted_candidates) >= requirement.area

\* C2 witness: the fitter returned after shrinking a second candidate, and
\* the total is the requirement.
C2_Witness ==
    /\ pc = "done"
    /\ Len(adjusted_candidates) = 2
    /\ adjusted_candidates[2].scaled
    /\ adjusted_candidates[2].area < sorted_candidates[2].area
    /\ SumArea(adjusted_candidates) = requirement.area

\* C3: when the requirement area is 0, get_openspace returns an empty list.
C3_NoRequirementNoOpenspace ==
    (pc = "done" /\ requirement.area = 0) => adjusted_candidates = <<>>

\* C4 as claimed: every region get_openspace returns has area >= 90, a
\* shrunk last region included.
C4_EveryRegionMinArea ==
    pc = "done" =>
        \A i \in 1..Len(adjusted_candidates) : adjusted_candidates[i].area >= 90

\* C4 as amended: every region get_openspace returns that the fitter left
\* unscaled has area >= 90; a scaled region is the last one and its area is
\* the requirement less the total of the regions before it.
C4_UnscaledRegionsMinArea ==
    pc = "done" =>
        \A i \in 1..Len(adjusted_candidates) :
            IF adjusted_candidates[i].scaled
            THEN /\ i = Len(adjusted_candidates)
                 /\ adjusted_candidates[i].area =
                       requirement.area
                       - SumArea(SubSeq(adjusted_candidates, 1, i - 1))
            ELSE adjusted_candidates[i].area >= 90

\* C4 witness: a required area of 135 is met by a region of 90 and a
\* second region shrunk from 90 to 45.
C4_Witness ==
    /\ pc = "done"
    /\ requirement.area = 135
    /\ Len(adjusted_candidates) = 2
    /\ ~adjusted_candidates[1].scaled
    /\ adjusted_candidates[2].scaled
    /\ adjusted_candidates[2].area = 45

\* C7: a degenerate outward offset or an empty overlap with the lot
\* boundary drops one candidate and never ends the run with an exception.
C7_DegenerateNotFatal == pc # "raised"

\* Length of the shortest prefix of s whose total area reaches req, or the
\* length of s when none does.
ShortestPrefix(s, req) ==
    IF \E k \in 0..Len(s) : SumArea(SubSeq(s, 1, k)) >= req
    THEN CHOOSE k \in 0..Len(s) :
            /\ SumArea(SubSeq(s, 1, k)) >= req
            /\ \A j \in 0..(k - 1) : SumArea(SubSeq(s, 1, j)) < req
    ELSE Len(s)

\* C8: the fitter's result is the shortest prefix of the ranked list whose
\* total reaches the requirement (the whole list if none does), unmodified
\* except possibly for a scaled last element; nothing after that prefix is
\* examined; a ranked list totalling less than the requirement is returned
\* unchanged.
C8_GreedyPrefix ==
    pc = "done" =>
        LET n == ShortestPrefix(sorted_candidates, requirement.area)
        IN  /\ Len(adjusted_candidates) = n
            /\ idx - 1 = n
            /\ \A i \in 1..(n - 1) : adjusted_candidates[i] = sorted_candidates[i]
            /\ n > 0 =>
                  \/ adjusted_candidates[n] = sorted_candidates[n]
                  \/ /\ adjusted_candidates[n].scaled
                     /\ adjusted_candidates[n].id = sorted_candidates[n].id
            /\ SumArea(sorted_candidates) < requirement.area
                  => adjusted_candidates = sorted_candidates

\* For every building region there is, how each inward region lies to it.
Apart(region) ==
    \A b \in 1..Len(region.contact) : region.contact[b] = "apart"

ApartOrPointTouching(region) ==
    \A b \in 1..Len(region.contact) : region.contact[b] \in {"apart", "point"}

C10_ScaleFactorDefined ==
    /\ pc \in {"adjust_candidate_regions", "adjust_loop", "done"} =>
          \A i \in 1..Len(sorted_candidates) : sorted_candidates[i].area >= 90
    /\ scale_call # <<>> =>
          /\ scale_call[2] > 0
          /\ 0 <= scale_call[1]
          /\ scale_call[1] < scale_call[2]

\* C10 witness: a run in which a candidate rejected for its area never
\* reached the fitter and the fitter computed a scale factor above 0.
C10_Witness ==
    /\ pc = "done"
    /\ \E i \in 1..Len(candidates) : candidates[i].area < 90
    /\ scale_call # <<>>
    /\ scale_call[1] > 0

====
